---- MODULE Spec2Model ----
(***************************************************************************)
(* Binary prefix trie of metajar/trie-network (pkg/trie): IPTrie with      *)
(* Insert, Find, FindAll and Delete over CIDR prefixes of two address      *)
(* families that share one root.                                           *)
(*                                                                         *)
(* A node is identified by its bit path from the root (the trie is an      *)
(* ownership tree, so the path is the node's identity); `nodes` maps the   *)
(* path of every node reachable from t.root to the node's fields.          *)
(* Addresses are byte sequences as in package net, walked with the code's  *)
(* index arithmetic; the byte lengths of the two families (V4Bytes,        *)
(* V6Bytes) and the width of a byte (ByteBits) are scaled down.            *)
(***************************************************************************)
EXTENDS Integers, Sequences, FiniteSets, TLC

VARIABLES nodes, reg, last, ref, procs, mu

vars == <<nodes, reg, last, ref, procs, mu>>

(***************************************************************************)
(* Bounds of the model.                                                    *)
(***************************************************************************)
\* byte length of an IPv4 address (net.IPv4len, 4 in package net)
V4Bytes == 1
\* byte length of an IPv6 address (net.IPv6len, 16 in package net), kept so that the
\* IPv4-in-IPv6 prefix is longer than an IPv4 address, as 12 bytes are longer than 4
V6Bytes == 2 * V4Bytes + 1
\* bits per byte: the 8 of i / 8 and i % 8 (and 7 is ByteBits - 1)
ByteBits == 2

Pow2(n) == 2 ^ n

\* the byte 0xff
AllOnes == Pow2(ByteBits) - 1

\* the byte with only its top bit set
TopBit == Pow2(ByteBits - 1)

(***************************************************************************)
(* Texts.  A CIDR text is [fam, addr, plen]: the family its address is     *)
(* written in (4 dotted quad, 6 colon hex, 0 for text that is no address), *)
(* the address bytes as written and the decimal prefix length as written.  *)
(* An address text is [fam, addr].  The empty string is EmptyText.         *)
(***************************************************************************)
EmptyText == [fam |-> 0, addr |-> <<>>, plen |-> 0]

EmptyIPText == [fam |-> 0, addr |-> <<>>]

\* an empty metadata map, make(map[string]interface{})
EmptyMeta == "empty"

Metas == {"m1", "m2"}

\* net.v4InV6Prefix, scaled: zero bytes followed by 0xff
v4InV6Prefix == [i \in 1..(V6Bytes - V4Bytes) |-> IF i = V6Bytes - V4Bytes THEN AllOnes ELSE 0]

Fill(h, t, n) == [i \in 1..n |-> IF i = 1 THEN h ELSE t]

W4 == ByteBits * V4Bytes

W6 == ByteBits * V6Bytes

\* the IPv4 addresses and the IPv6 addresses (plain and IPv4-mapped) of the inputs
A4Zero == Fill(0, 0, V4Bytes)

A4Net == Fill(TopBit, 0, V4Bytes)

A4Ones == Fill(AllOnes, AllOnes, V4Bytes)

A6Net == Fill(TopBit, 0, V6Bytes)

A6Host == Fill(TopBit, 0, V6Bytes - 1) \o <<1>>

A6Mapped == v4InV6Prefix \o A4Net

Cidr(fam, addr, plen) == [fam |-> fam, addr |-> addr, plen |-> plen]

IPText(fam, addr) == [fam |-> fam, addr |-> addr]

CidrTexts ==
    {Cidr(4, A4Net, 0), Cidr(4, A4Ones, 1), Cidr(4, A4Net, W4), Cidr(4, A4Net, W4 + 1),
     Cidr(6, A6Net, W4), Cidr(6, A6Net, W6), Cidr(6, A6Host, W6),
     Cidr(6, A6Mapped, W6 - W4), Cidr(6, A6Mapped, W6),
     EmptyText}

\* the calls of Insert: every text with m1, one of them with m2 as well
InsertInputs ==
    {<<c, "m1">> : c \in CidrTexts} \cup {<<Cidr(4, A4Ones, 1), "m2">>}

IPTexts ==
    {IPText(4, A4Zero), IPText(4, A4Net), IPText(4, A4Ones),
     IPText(6, A6Net), IPText(6, A6Host), IPText(6, A6Mapped), EmptyIPText}

(***************************************************************************)
(* Package net, as far as the trie uses it.                                *)
(***************************************************************************)
\* b & m for bytes
RECURSIVE AndBits(_, _, _)
AndBits(b, m, k) ==
    IF k = 0 THEN 0
    ELSE 2 * AndBits(b \div 2, m \div 2, k - 1) + (b % 2) * (m % 2)

ByteAnd(b, m) == AndBits(b, m, ByteBits)

\* net.CIDRMask(ones, bits): ones 1-bits followed by 0-bits, bits/8 bytes
CIDRMask(ones, bits) ==
    [i \in 1..(bits \div ByteBits) |->
        LET n == ones - ByteBits * (i - 1) IN
        IF n >= ByteBits THEN AllOnes
        ELSE IF n <= 0 THEN 0
        ELSE AllOnes - (Pow2(ByteBits - n) - 1)]

\* IPMask.Size for a mask made by CIDRMask
MaskSize(ones, bits) == [ones |-> ones, total |-> bits]

\* IP.To4: the 4-byte form of an IPv4 or IPv4-mapped address, <<>> for nil
To4(ip) ==
    IF Len(ip) = V4Bytes THEN ip
    ELSE IF Len(ip) = V6Bytes
            /\ SubSeq(ip, 1, V6Bytes - V4Bytes) = v4InV6Prefix
         THEN SubSeq(ip, V6Bytes - V4Bytes + 1, V6Bytes)
    ELSE <<>>

\* IP.To16
To16(ip) ==
    IF Len(ip) = V4Bytes THEN v4InV6Prefix \o ip
    ELSE IF Len(ip) = V6Bytes THEN ip
    ELSE <<>>

\* IP.Mask: a 4-byte mask applies to the 4-byte form of a 16-byte IPv4 address
IPMask(ip, mask) ==
    LET ip2 == IF Len(mask) = V4Bytes /\ Len(ip) = V6Bytes
                  /\ SubSeq(ip, 1, V6Bytes - V4Bytes) = v4InV6Prefix
               THEN SubSeq(ip, V6Bytes - V4Bytes + 1, V6Bytes)
               ELSE ip
    IN IF Len(ip2) # Len(mask) THEN <<>>
       ELSE [i \in 1..Len(ip2) |-> ByteAnd(ip2[i], mask[i])]

FamBytes(fam) == IF fam = 4 THEN V4Bytes ELSE V6Bytes

\* net.ParseCIDR: [ok, IP (the masked network address), ones, total]
ParseCIDR(s) ==
    IF s.fam \notin {4, 6} \/ Len(s.addr) # FamBytes(s.fam)
       \/ s.plen < 0 \/ s.plen > ByteBits * FamBytes(s.fam)
    THEN [ok |-> FALSE, IP |-> <<>>, ones |-> 0, total |-> 0]
    ELSE LET bitlen == ByteBits * FamBytes(s.fam)
             m == CIDRMask(s.plen, bitlen)
             sz == MaskSize(s.plen, bitlen)
         IN [ok |-> TRUE, IP |-> IPMask(To16(s.addr), m),
             ones |-> sz.ones, total |-> sz.total]

\* net.ParseIP: the 16-byte form, <<>> for nil
ParseIP(s) ==
    IF s.fam \notin {4, 6} \/ Len(s.addr) # FamBytes(s.fam) THEN <<>>
    ELSE To16(s.addr)

(***************************************************************************)
(* pkg/trie                                                                *)
(***************************************************************************)
ipToBytes(ip) == IF To4(ip) # <<>> THEN To4(ip) ELSE To16(ip)

\* the parse of every input text and the bytes the trie walks for it, computed once
CidrParse == [s \in CidrTexts |-> ParseCIDR(s)]

CidrBytes == [s \in CidrTexts |-> ipToBytes(ParseCIDR(s).IP)]

IPParse == [s \in IPTexts |-> ParseIP(s)]

IPBytes == [s \in IPTexts |-> ipToBytes(ParseIP(s))]

\* the bit taken from the low end of the byte: bitIndex := i % 8
BitAtLowFirst(ipBytes, i) ==
    (ipBytes[(i \div ByteBits) + 1] \div Pow2(i % ByteBits)) % 2

\* bit := (ipBytes[byteIndex] >> uint(bitIndex)) & 1, bytes indexed from 0
BitAt(ipBytes, i) ==
    LET byteIndex == i \div ByteBits
        bitIndex == (ByteBits - 1) - (i % ByteBits)
    IN (ipBytes[byteIndex + 1] \div Pow2(bitIndex)) % 2

\* the index expression ipBytes[byteIndex] is in range
InRange(ipBytes, i) == (i \div ByteBits) < Len(ipBytes)

\* &Node{children: make(...), metadata: make(...)}
NewNode == [isEnd |-> FALSE, cidr |-> EmptyText, metadata |-> EmptyMeta]

\* NewIPTrie: the root alone
NewIPTrie == (<<>> :> NewNode)

\* a nil *Node
Nil == <<2>>

\* node.children[bit] of the node at path p, in a trie whose nodes are at the paths dom
Child(dom, p, bit) == IF Append(p, bit) \in dom THEN Append(p, bit) ELSE Nil

\* len(node.children)
NumChildren(dom, p) == Cardinality({b \in {0, 1} : Append(p, b) \in dom})

IsPrefix(p, q) == Len(p) <= Len(q) /\ SubSeq(q, 1, Len(p)) = p

\* for i := from; i < to; i++ { ... create the missing child, descend }
RECURSIVE InsertLoop(_, _, _, _, _)
InsertLoop(t, node, i, to, ipBytes) ==
    IF i >= to THEN [t |-> t, node |-> node, panic |-> FALSE]
    ELSE IF ~InRange(ipBytes, i) THEN [t |-> t, node |-> node, panic |-> TRUE]
    ELSE IF Child(DOMAIN t, node, BitAt(ipBytes, i)) = Nil
    THEN InsertLoop(t @@ (Append(node, BitAt(ipBytes, i)) :> NewNode),
                    Append(node, BitAt(ipBytes, i)), i + 1, to, ipBytes)
    ELSE InsertLoop(t, Child(DOMAIN t, node, BitAt(ipBytes, i)), i + 1, to, ipBytes)

\* Insert that leaves the fields of an already registered node alone
InsertResultKeepFirst(t, cidr, metadata) ==
    LET p == CidrParse[cidr]
        ipBytes == CidrBytes[cidr]
        w == InsertLoop(t, <<>>, 0, p.ones, ipBytes)
    IN IF w.panic THEN [t |-> w.t, err |-> "panic", node |-> w.node]
       ELSE IF w.t[w.node].isEnd THEN [t |-> w.t, err |-> "nil", node |-> w.node]
       ELSE [t |-> [w.t EXCEPT ![w.node] =
                       [isEnd |-> TRUE, cidr |-> cidr, metadata |-> metadata]],
             err |-> "nil", node |-> w.node]

\* Insert whose new nodes are made with the registered flag set
InsertResultFlagsCreated(t, cidr, metadata) ==
    LET w == InsertLoop(t, <<>>, 0, CidrParse[cidr].ones, CidrBytes[cidr])
        made == [q \in DOMAIN w.t |->
                    IF q \in DOMAIN t THEN w.t[q]
                    ELSE [isEnd |-> TRUE, cidr |-> EmptyText, metadata |-> EmptyMeta]]
    IN IF w.panic THEN [t |-> w.t, err |-> "panic", node |-> w.node]
       ELSE [t |-> [made EXCEPT ![w.node] =
                       [isEnd |-> TRUE, cidr |-> cidr, metadata |-> metadata]],
             err |-> "nil", node |-> w.node]

\* Insert that stores ipNet.String(), the network address and the length, for the text
InsertResultCanonical(t, cidr, metadata) ==
    LET p == CidrParse[cidr]
        w == InsertLoop(t, <<>>, 0, p.ones, CidrBytes[cidr])
        text == [fam |-> cidr.fam,
                 addr |-> IF cidr.fam = 4 THEN To4(p.IP) ELSE To16(p.IP),
                 plen |-> p.ones]
    IN IF w.panic THEN [t |-> w.t, err |-> "panic", node |-> w.node]
       ELSE [t |-> [w.t EXCEPT ![w.node] =
                       [isEnd |-> TRUE, cidr |-> text, metadata |-> metadata]],
             err |-> "nil", node |-> w.node]

\* the body of Insert after a successful parse: [t, err, node]
InsertResult(t, cidr, metadata) ==
    LET p == CidrParse[cidr]
        ipBytes == CidrBytes[cidr]
        w1 == InsertLoop(t, <<>>, 0, p.ones, ipBytes)
        w2 == IF ~w1.panic /\ p.ones = p.total
              THEN InsertLoop(w1.t, w1.node, p.ones, p.total, ipBytes)
              ELSE w1
    IN IF w2.panic THEN [t |-> w2.t, err |-> "panic", node |-> w2.node]
       ELSE [t |-> [w2.t EXCEPT ![w2.node] =
                       [isEnd |-> TRUE, cidr |-> cidr, metadata |-> metadata]],
             err |-> "nil", node |-> w2.node]

\* for i := 0; i < totalBits; i++ { if node.isEnd {lastMatch = node}; descend or break }
RECURSIVE FindLoop(_, _, _, _, _, _)
FindLoop(t, node, i, totalBits, ipBytes, lastMatch) ==
    IF i >= totalBits THEN [node |-> node, lastMatch |-> lastMatch]
    ELSE IF t[node].isEnd
    THEN IF Child(DOMAIN t, node, BitAt(ipBytes, i)) = Nil
         THEN [node |-> Nil, lastMatch |-> node]
         ELSE FindLoop(t, Child(DOMAIN t, node, BitAt(ipBytes, i)), i + 1, totalBits,
                       ipBytes, node)
    ELSE IF Child(DOMAIN t, node, BitAt(ipBytes, i)) = Nil
         THEN [node |-> Nil, lastMatch |-> lastMatch]
         ELSE FindLoop(t, Child(DOMAIN t, node, BitAt(ipBytes, i)), i + 1, totalBits,
                       ipBytes, lastMatch)

\* the loop of Find keeping the first registered node it meets, not the last
RECURSIVE FindLoopFirstMatch(_, _, _, _, _, _)
FindLoopFirstMatch(t, node, i, totalBits, ipBytes, lastMatch) ==
    IF i >= totalBits THEN [node |-> node, lastMatch |-> lastMatch]
    ELSE IF t[node].isEnd /\ lastMatch = Nil
    THEN IF Child(DOMAIN t, node, BitAt(ipBytes, i)) = Nil
         THEN [node |-> Nil, lastMatch |-> node]
         ELSE FindLoopFirstMatch(t, Child(DOMAIN t, node, BitAt(ipBytes, i)), i + 1,
                                 totalBits, ipBytes, node)
    ELSE IF Child(DOMAIN t, node, BitAt(ipBytes, i)) = Nil
         THEN [node |-> Nil, lastMatch |-> lastMatch]
         ELSE FindLoopFirstMatch(t, Child(DOMAIN t, node, BitAt(ipBytes, i)), i + 1,
                                 totalBits, ipBytes, lastMatch)

\* Find that returns the first registered node on the way, not the last
FindResultFirstMatch(t, ip) ==
    LET ipBytes == IPBytes[ip]
        w == FindLoopFirstMatch(t, <<>>, 0, Len(ipBytes) * ByteBits, ipBytes, Nil)
        lastMatch == IF w.lastMatch = Nil /\ w.node # Nil /\ t[w.node].isEnd
                     THEN w.node ELSE w.lastMatch
    IN IF IPParse[ip] = <<>>
       THEN [err |-> "invalid", cidr |-> EmptyText, metadata |-> EmptyMeta]
       ELSE IF lastMatch = Nil
       THEN [err |-> "notfound", cidr |-> EmptyText, metadata |-> EmptyMeta]
       ELSE [err |-> "nil", cidr |-> t[lastMatch].cidr, metadata |-> t[lastMatch].metadata]

\* Find without the check of the last node after the loop
FindResultNoLastCheck(t, ip) ==
    LET parsedIP == IPParse[ip]
        ipBytes == IPBytes[ip]
        totalBits == Len(ipBytes) * ByteBits
        lastMatch == FindLoop(t, <<>>, 0, totalBits, ipBytes, Nil).lastMatch
    IN IF parsedIP = <<>>
       THEN [err |-> "invalid", cidr |-> EmptyText, metadata |-> EmptyMeta]
       ELSE IF lastMatch = Nil
       THEN [err |-> "notfound", cidr |-> EmptyText, metadata |-> EmptyMeta]
       ELSE [err |-> "nil", cidr |-> t[lastMatch].cidr, metadata |-> t[lastMatch].metadata]

\* Find on trie t: [err, cidr, metadata]
FindResult(t, ip) ==
    LET parsedIP == IPParse[ip]
        ipBytes == IPBytes[ip]
        totalBits == Len(ipBytes) * ByteBits
        w == FindLoop(t, <<>>, 0, totalBits, ipBytes, Nil)
        lastMatch == IF w.node # Nil /\ t[w.node].isEnd THEN w.node ELSE w.lastMatch
    IN IF parsedIP = <<>>
       THEN [err |-> "invalid", cidr |-> EmptyText, metadata |-> EmptyMeta]
       ELSE IF lastMatch = Nil
       THEN [err |-> "notfound", cidr |-> EmptyText, metadata |-> EmptyMeta]
       ELSE [err |-> "nil", cidr |-> t[lastMatch].cidr, metadata |-> t[lastMatch].metadata]

\* one element of the matches slice
Match(t, node) == [CIDR |-> t[node].cidr, Metadata |-> t[node].metadata]

\* for i := 0; i < totalBits; i++ { if node.isEnd {append}; descend or break }
RECURSIVE FindAllLoop(_, _, _, _, _, _)
FindAllLoop(t, node, i, totalBits, ipBytes, matches) ==
    IF i >= totalBits THEN [node |-> node, matches |-> matches]
    ELSE IF t[node].isEnd
    THEN IF Child(DOMAIN t, node, BitAt(ipBytes, i)) = Nil
         THEN [node |-> Nil, matches |-> Append(matches, Match(t, node))]
         ELSE FindAllLoop(t, Child(DOMAIN t, node, BitAt(ipBytes, i)), i + 1, totalBits,
                          ipBytes, Append(matches, Match(t, node)))
    ELSE IF Child(DOMAIN t, node, BitAt(ipBytes, i)) = Nil
         THEN [node |-> Nil, matches |-> matches]
         ELSE FindAllLoop(t, Child(DOMAIN t, node, BitAt(ipBytes, i)), i + 1, totalBits,
                          ipBytes, matches)

\* FindAll without the check of the last node after the loop
FindAllResultNoLastCheck(t, ip) ==
    IF IPParse[ip] = <<>> THEN [err |-> "invalid", matches |-> <<>>]
    ELSE [err |-> "nil",
          matches |-> FindAllLoop(t, <<>>, 0, Len(IPBytes[ip]) * ByteBits, IPBytes[ip],
                                  <<>>).matches]

\* FindAll that reports an empty result as Find does
FindAllResultErrOnEmpty(t, ip) ==
    LET w == FindAllLoop(t, <<>>, 0, Len(IPBytes[ip]) * ByteBits, IPBytes[ip], <<>>)
        matches == IF w.node # Nil /\ t[w.node].isEnd
                   THEN Append(w.matches, Match(t, w.node))
                   ELSE w.matches
    IN IF IPParse[ip] = <<>> THEN [err |-> "invalid", matches |-> <<>>]
       ELSE IF matches = <<>> THEN [err |-> "notfound", matches |-> <<>>]
       ELSE [err |-> "nil", matches |-> matches]

\* FindAll on trie t: [err, matches]
FindAllResult(t, ip) ==
    LET parsedIP == IPParse[ip]
        ipBytes == IPBytes[ip]
        totalBits == Len(ipBytes) * ByteBits
        w == FindAllLoop(t, <<>>, 0, totalBits, ipBytes, <<>>)
        matches == IF w.node # Nil /\ t[w.node].isEnd
                   THEN Append(w.matches, Match(t, w.node))
                   ELSE w.matches
    IN IF parsedIP = <<>> THEN [err |-> "invalid", matches |-> <<>>]
       ELSE [err |-> "nil", matches |-> matches]

\* totalBits of Delete: ones, or the whole of ipBytes when ones == total
DeleteBits(ones, total, ipBytes) ==
    IF ones = total THEN Len(ipBytes) * ByteBits ELSE ones

\* "Collect nodes along the path": [err, node, nodes]
RECURSIVE DeleteWalk(_, _, _, _, _, _)
DeleteWalk(t, node, i, totalBits, ipBytes, path) ==
    IF i >= totalBits THEN [err |-> "nil", node |-> node, nodes |-> path]
    ELSE IF ~InRange(ipBytes, i) THEN [err |-> "panic", node |-> node, nodes |-> path]
    ELSE IF Child(DOMAIN t, node, BitAt(ipBytes, i)) = Nil
    THEN [err |-> "notfound", node |-> node, nodes |-> path]
    ELSE DeleteWalk(t, Child(DOMAIN t, node, BitAt(ipBytes, i)), i + 1, totalBits, ipBytes,
                    Append(path, node))

\* delete(parent.children, bit): the child and all it owns leave the trie
Detach(dom, child) == {q \in dom : ~IsPrefix(child, q)}

\* the condition under which the clean-up loop detaches child
Prunable(t, dom, child) == NumChildren(dom, child) = 0 /\ ~t[child].isEnd

\* "Clean up empty branches": for i := len(nodes) - 1; i >= 0; i--
\* (t holds the nodes' fields, dom the paths of the nodes still attached)
RECURSIVE PruneLoop(_, _, _, _, _)
PruneLoop(t, dom, path, i, ipBytes) ==
    IF i < 0 THEN dom
    ELSE IF Prunable(t, dom, Child(dom, path[i + 1], BitAt(ipBytes, i)))
    THEN PruneLoop(t, Detach(dom, Child(dom, path[i + 1], BitAt(ipBytes, i))),
                   path, i - 1, ipBytes)
    ELSE PruneLoop(t, dom, path, i - 1, ipBytes)

\* clearing that forgets node.isEnd = false
ClearNodeKeepFlag(t, node) ==
    [t EXCEPT ![node] = [isEnd |-> t[node].isEnd, cidr |-> EmptyText, metadata |-> EmptyMeta]]

\* node.isEnd = false; node.metadata = make(...); node.cidr = ""
ClearNode(t, node) == [t EXCEPT ![node] = NewNode]

\* Delete that clears the node its walk reached before it checks for a missing child
DeleteResultClearsReached(t, cidr) ==
    LET p == CidrParse[cidr]
        ipBytes == CidrBytes[cidr]
        totalBits == IF p.ones = p.total THEN Len(ipBytes) * ByteBits ELSE p.ones
        w == DeleteWalk(t, <<>>, 0, totalBits, ipBytes, <<>>)
    IN IF w.err = "panic" THEN [t |-> t, err |-> w.err, node |-> w.node]
       ELSE IF w.err = "notfound" \/ ~t[w.node].isEnd
       THEN [t |-> ClearNode(t, w.node), err |-> "notfound", node |-> w.node]
       ELSE LET c == ClearNode(t, w.node)
                kept == PruneLoop(c, DOMAIN c, w.nodes, Len(w.nodes) - 1, ipBytes)
            IN [t |-> [q \in kept |-> c[q]], err |-> "nil", node |-> w.node]

\* the body of Delete after a successful parse: [t, err, node]
DeleteResult(t, cidr) ==
    LET p == CidrParse[cidr]
        ipBytes == CidrBytes[cidr]
        totalBits == DeleteBits(p.ones, p.total, ipBytes)
        w == DeleteWalk(t, <<>>, 0, totalBits, ipBytes, <<>>)
    IN IF w.err # "nil" THEN [t |-> t, err |-> w.err, node |-> w.node]
       ELSE IF ~t[w.node].isEnd THEN [t |-> t, err |-> "notfound", node |-> w.node]
       ELSE LET c == ClearNode(t, w.node)
                kept == PruneLoop(c, DOMAIN c, w.nodes, Len(w.nodes) - 1, ipBytes)
            IN [t |-> [q \in kept |-> c[q]], err |-> "nil", node |-> w.node]

(***************************************************************************)
(* The reference registry: the set of [path, cidr, metadata] of the        *)
(* prefixes inserted and not deleted since, keyed by bit path (reg), and   *)
(* the same map keyed by the CIDR's own bits and length (ref).             *)
(***************************************************************************)
RegPut(r, path, cidr, metadata) ==
    {e \in r : e.path # path} \cup {[path |-> path, cidr |-> cidr, metadata |-> metadata]}

RegDrop(r, path) == {e \in r : e.path # path}

RegPaths(r) == {e.path : e \in r}

\* The key of a CIDR in a reference map from (bit sequence, length): the first ones
\* bits of the network address at the width of the family the text is written in
RefKey(c) ==
    LET bytes == IF c.fam = 4 THEN To4(CidrParse[c].IP) ELSE To16(CidrParse[c].IP)
    IN [i \in 1..CidrParse[c].ones |-> BitAt(bytes, i - 1)]

NoOut == [cidr |-> EmptyText, metadata |-> EmptyMeta, matches |-> <<>>]

\* no node was written by the call
NoNode == [node |-> Nil, old |-> NewNode]

\* The record of a call: the operation, its arguments, the error it returned ("nil",
\* "invalid", "notfound", or "panic" for a run-time panic) and its results; node and
\* old are the path of the node a successful Insert or Delete wrote and the fields
\* that node had before the call.
Call(op, arg, meta, err, out, wr) ==
    [op |-> op, arg |-> arg, meta |-> meta, err |-> err,
     cidr |-> out.cidr, metadata |-> out.metadata, matches |-> out.matches,
     node |-> wr.node, old |-> wr.old]

(***************************************************************************)
(* Callers that run an operation one statement at a time.  procs[p] holds  *)
(* the locals of the call goroutine p is in: the program position pc and   *)
(* the locals node, i, lastMatch, matches and nodes (path) of the code;    *)
(* res is what the call returned.  snap is the trie when the call began    *)
(* and clean tells that no Insert or Delete ran while the call did.  mu is *)
(* the caller's lock of the README's SafeIPTrie: on when the callers use   *)
(* it, holder the goroutine inside (0 for none).                           *)
(***************************************************************************)
Procs == {1, 2}

Reads == {"Find", "FindAll"}

Writes == {"Insert", "Delete"}

NoRes == [err |-> "none", cidr |-> EmptyText, metadata |-> EmptyMeta, matches |-> <<>>]

Res(err, cidr, metadata, matches) ==
    [err |-> err, cidr |-> cidr, metadata |-> metadata, matches |-> matches]

Idle ==
    [op |-> "none", arg |-> EmptyText, meta |-> EmptyMeta, pc |-> "idle",
     node |-> Nil, i |-> 0, lastMatch |-> Nil, matches |-> <<>>, path |-> <<>>,
     res |-> NoRes, snap |-> NewIPTrie, clean |-> TRUE]

\* the fields a goroutine reads through a pointer: a node no longer in the trie was
\* cleared and had no children when it was detached
Field(t, node) == IF node \in DOMAIN t THEN t[node] ELSE NewNode

\* the inputs of the stepwise callers
ConcCidrs == {Cidr(4, A4Ones, 1), Cidr(4, A4Net, W4), Cidr(6, A6Mapped, W6), EmptyText}

ConcIPs == {IPText(4, A4Net), IPText(4, A4Ones), EmptyIPText}

\* the tries the stepwise callers start from: built by Insert from the empty trie
TrieOne == InsertResult(NewIPTrie, Cidr(4, A4Net, W4), "m1").t

TrieTwo == InsertResult(TrieOne, Cidr(4, A4Ones, 1), "m1").t

ConcTries == {TrieOne, TrieTwo}

\* the registrations a trie holds
RegOf(t) ==
    {[path |-> q, cidr |-> t[q].cidr, metadata |-> t[q].metadata] :
        q \in {x \in DOMAIN t : t[x].isEnd}}

\* a call that has begun and not returned
Running(p) == p.pc \notin {"idle", "done"}

Done(p, res) == [p EXCEPT !.pc = "done", !.res = res]

\* Find whose loop does not remember the registered node it stands on
FindStepForgets(t, p) ==
    LET ipBytes == IPBytes[IPText(p.arg.fam, p.arg.addr)]
        totalBits == Len(ipBytes) * ByteBits
    IN IF p.pc = "loop"
       THEN LET child == Child(DOMAIN t, p.node, BitAt(ipBytes, p.i)) IN
            [p EXCEPT !.node = child,
                      !.i = @ + 1,
                      !.pc = IF child = Nil \/ p.i + 1 >= totalBits THEN "last" ELSE "loop"]
       ELSE IF p.pc = "last"
       THEN [p EXCEPT !.lastMatch = IF p.node # Nil /\ Field(t, p.node).isEnd
                                    THEN p.node ELSE @,
                      !.pc = "ret"]
       ELSE IF p.lastMatch = Nil
       THEN Done(p, Res("notfound", EmptyText, EmptyMeta, <<>>))
       ELSE Done(p, Res("nil", Field(t, p.lastMatch).cidr,
                        Field(t, p.lastMatch).metadata, <<>>))

\* one statement group of Find: an iteration of the loop, the check of the last node,
\* the return
FindStep(t, p) ==
    LET ipBytes == IPBytes[IPText(p.arg.fam, p.arg.addr)]
        totalBits == Len(ipBytes) * ByteBits
    IN IF p.pc = "loop"
       THEN LET child == Child(DOMAIN t, p.node, BitAt(ipBytes, p.i)) IN
            [p EXCEPT !.lastMatch = IF Field(t, p.node).isEnd THEN p.node ELSE @,
                      !.node = child,
                      !.i = @ + 1,
                      !.pc = IF child = Nil \/ p.i + 1 >= totalBits THEN "last" ELSE "loop"]
       ELSE IF p.pc = "last"
       THEN [p EXCEPT !.lastMatch = IF p.node # Nil /\ Field(t, p.node).isEnd
                                    THEN p.node ELSE @,
                      !.pc = "ret"]
       ELSE IF p.lastMatch = Nil
       THEN Done(p, Res("notfound", EmptyText, EmptyMeta, <<>>))
       ELSE Done(p, Res("nil", Field(t, p.lastMatch).cidr,
                        Field(t, p.lastMatch).metadata, <<>>))

\* one statement group of FindAll: an iteration of the loop, or the check of the
\* last node and the return
FindAllStep(t, p) ==
    LET ipBytes == IPBytes[IPText(p.arg.fam, p.arg.addr)]
        totalBits == Len(ipBytes) * ByteBits
        found == IF p.node # Nil /\ Field(t, p.node).isEnd
                 THEN Append(p.matches, [CIDR |-> Field(t, p.node).cidr,
                                         Metadata |-> Field(t, p.node).metadata])
                 ELSE p.matches
    IN IF p.pc = "loop"
       THEN LET child == Child(DOMAIN t, p.node, BitAt(ipBytes, p.i)) IN
            [p EXCEPT !.matches = found,
                      !.node = child,
                      !.i = @ + 1,
                      !.pc = IF child = Nil \/ p.i + 1 >= totalBits THEN "last" ELSE "loop"]
       ELSE Done([p EXCEPT !.matches = found], Res("nil", EmptyText, EmptyMeta, found))

\* one statement group of Insert: an iteration of the loop, or one of the three
\* assignments to the terminal node; [p, t]
InsertStep(t, p) ==
    LET ipBytes == CidrBytes[p.arg]
        ones == CidrParse[p.arg].ones
    IN IF p.pc = "loop"
       THEN IF ~InRange(ipBytes, p.i)
            THEN [p |-> Done(p, Res("panic", EmptyText, EmptyMeta, <<>>)), t |-> t]
            ELSE LET child == Append(p.node, BitAt(ipBytes, p.i)) IN
                 [p |-> [p EXCEPT !.node = child, !.i = @ + 1,
                                  !.pc = IF p.i + 1 >= ones THEN "set1" ELSE "loop"],
                  t |-> IF child \in DOMAIN t THEN t ELSE t @@ (child :> NewNode)]
       ELSE IF p.pc = "set1"
       THEN [p |-> [p EXCEPT !.pc = "set2"], t |-> [t EXCEPT ![p.node].isEnd = TRUE]]
       ELSE IF p.pc = "set2"
       THEN [p |-> [p EXCEPT !.pc = "set3"], t |-> [t EXCEPT ![p.node].cidr = p.arg]]
       ELSE [p |-> Done(p, Res("nil", EmptyText, EmptyMeta, <<>>)),
             t |-> [t EXCEPT ![p.node].metadata = p.meta]]

\* one statement group of Delete: an iteration of the walk, the check of the
\* terminal node, one of the three assignments that clear it, or an iteration of the
\* clean-up loop; [p, t]
DeleteStep(t, p) ==
    LET ipBytes == CidrBytes[p.arg]
        totalBits == DeleteBits(CidrParse[p.arg].ones, CidrParse[p.arg].total, ipBytes)
    IN IF p.pc = "loop"
       THEN IF ~InRange(ipBytes, p.i)
            THEN [p |-> Done(p, Res("panic", EmptyText, EmptyMeta, <<>>)), t |-> t]
            ELSE IF Child(DOMAIN t, p.node, BitAt(ipBytes, p.i)) = Nil
            THEN [p |-> Done(p, Res("notfound", EmptyText, EmptyMeta, <<>>)), t |-> t]
            ELSE [p |-> [p EXCEPT !.path = Append(@, p.node),
                                  !.node = Child(DOMAIN t, p.node, BitAt(ipBytes, p.i)),
                                  !.i = @ + 1,
                                  !.pc = IF p.i + 1 >= totalBits THEN "check" ELSE "loop"],
                  t |-> t]
       ELSE IF p.pc = "check"
       THEN IF ~t[p.node].isEnd
            THEN [p |-> Done(p, Res("notfound", EmptyText, EmptyMeta, <<>>)), t |-> t]
            ELSE [p |-> [p EXCEPT !.pc = "clear1"], t |-> t]
       ELSE IF p.pc = "clear1"
       THEN [p |-> [p EXCEPT !.pc = "clear2"], t |-> [t EXCEPT ![p.node].isEnd = FALSE]]
       ELSE IF p.pc = "clear2"
       THEN [p |-> [p EXCEPT !.pc = "clear3"],
             t |-> [t EXCEPT ![p.node].metadata = EmptyMeta]]
       ELSE IF p.pc = "clear3"
       THEN [p |-> IF Len(p.path) = 0
                   THEN Done(p, Res("nil", EmptyText, EmptyMeta, <<>>))
                   ELSE [p EXCEPT !.pc = "prune", !.i = Len(p.path) - 1],
             t |-> [t EXCEPT ![p.node].cidr = EmptyText]]
       ELSE LET child == Child(DOMAIN t, p.path[p.i + 1], BitAt(ipBytes, p.i))
                kept == IF Prunable(t, DOMAIN t, child)
                        THEN Detach(DOMAIN t, child) ELSE DOMAIN t
            IN [p |-> IF p.i = 0
                      THEN Done(p, Res("nil", EmptyText, EmptyMeta, <<>>))
                      ELSE [p EXCEPT !.i = @ - 1],
                t |-> [q \in kept |-> t[q]]]

\* a caller that does not wait for the lock
CanBeginUnlocked(m) == TRUE

\* the lock lets a call begin
CanBegin(m) == m.on => m.holder = 0

Init ==
    /\ nodes = NewIPTrie
    /\ reg = {}
    /\ ref = {}
    /\ last = Call("New", EmptyText, EmptyMeta, "nil", NoOut, NoNode)
    /\ procs = [p \in Procs |-> Idle]
    /\ mu = [on |-> FALSE, holder |-> 0]

\* t.Insert(cidr, metadata)
Insert(cidr, metadata) ==
    IF ~CidrParse[cidr].ok
    THEN /\ last' = Call("Insert", cidr, metadata, "invalid", NoOut, NoNode)
         /\ UNCHANGED <<nodes, reg, ref>>
    ELSE LET r == InsertResult(nodes, cidr, metadata) IN
         /\ nodes' = r.t
         /\ reg' = IF r.err = "nil" THEN RegPut(reg, r.node, cidr, metadata) ELSE reg
         /\ ref' = IF r.err = "nil" THEN RegPut(ref, RefKey(cidr), cidr, metadata) ELSE ref
         /\ last' = Call("Insert", cidr, metadata, r.err, NoOut,
                         IF r.err = "nil"
                         THEN [node |-> r.node,
                               old |-> IF r.node \in DOMAIN nodes THEN nodes[r.node]
                                       ELSE NewNode]
                         ELSE NoNode)

\* t.Find(ip)
Find(ip) ==
    LET r == FindResult(nodes, ip) IN
    /\ last' = Call("Find", Cidr(ip.fam, ip.addr, 0), EmptyMeta, r.err,
                    [cidr |-> r.cidr, metadata |-> r.metadata, matches |-> <<>>], NoNode)
    /\ UNCHANGED <<nodes, reg, ref>>

\* t.FindAll(ip)
FindAll(ip) ==
    LET r == FindAllResult(nodes, ip) IN
    /\ last' = Call("FindAll", Cidr(ip.fam, ip.addr, 0), EmptyMeta, r.err,
                    [cidr |-> EmptyText, metadata |-> EmptyMeta, matches |-> r.matches],
                    NoNode)
    /\ UNCHANGED <<nodes, reg, ref>>

\* t.Delete(cidr)
Delete(cidr) ==
    IF ~CidrParse[cidr].ok
    THEN /\ last' = Call("Delete", cidr, EmptyMeta, "invalid", NoOut, NoNode)
         /\ UNCHANGED <<nodes, reg, ref>>
    ELSE LET r == DeleteResult(nodes, cidr) IN
         /\ nodes' = r.t
         /\ reg' = IF r.err = "nil" THEN RegDrop(reg, r.node) ELSE reg
         /\ ref' = IF r.err = "nil" THEN RegDrop(ref, RefKey(cidr)) ELSE ref
         /\ last' = Call("Delete", cidr, EmptyMeta, r.err, NoOut,
                         IF r.err = "nil" THEN [node |-> r.node, old |-> nodes[r.node]]
                         ELSE NoNode)

Next ==
    \/ \E in \in InsertInputs : Insert(in[1], in[2]) /\ UNCHANGED <<procs, mu>>
    \/ \E ip \in IPTexts : Find(ip) /\ UNCHANGED <<procs, mu>>
    \/ \E ip \in IPTexts : FindAll(ip) /\ UNCHANGED <<procs, mu>>
    \/ \E cidr \in CidrTexts : Delete(cidr) /\ UNCHANGED <<procs, mu>>

Spec == Init /\ [][Next]_vars

(***************************************************************************)
(* The stepwise callers: goroutine 1 reads, or makes one Insert or Delete; *)
(* goroutine 2 reads.                                                      *)
(***************************************************************************)
InitConc ==
    /\ nodes \in ConcTries
    /\ reg = RegOf(nodes)
    /\ ref = RegOf(nodes)
    /\ last = Call("New", EmptyText, EmptyMeta, "nil", NoOut, NoNode)
    /\ procs = [p \in Procs |-> Idle]
    /\ mu \in {[on |-> b, holder |-> 0] : b \in BOOLEAN}

\* the lock after goroutine self moved to the position pc
Locked(self, pc) ==
    IF mu.on THEN [mu EXCEPT !.holder = IF pc = "done" THEN 0 ELSE self] ELSE mu

\* goroutine self calls Find or FindAll
BeginRead(self, op, ip) ==
    /\ procs[self].pc \in {"idle", "done"}
    /\ procs[self].op \notin Writes
    /\ CanBegin(mu)
    /\ LET b == [Idle EXCEPT !.op = op, !.arg = Cidr(ip.fam, ip.addr, 0), !.snap = nodes,
                             !.clean = \A q \in Procs :
                                          ~(procs[q].op \in Writes /\ Running(procs[q]))]
           p == IF IPParse[ip] = <<>>
                THEN Done(b, Res("invalid", EmptyText, EmptyMeta, <<>>))
                ELSE [b EXCEPT !.pc = "loop", !.node = <<>>]
       IN /\ procs' = [procs EXCEPT ![self] = p]
          /\ mu' = Locked(self, p.pc)
    /\ UNCHANGED <<nodes, reg, ref, last>>

\* goroutine self calls Insert or Delete
BeginWrite(self, op, cidr, metadata) ==
    /\ self = 1
    /\ procs[self].pc \in {"idle", "done"}
    /\ procs[self].op \notin Writes
    /\ CanBegin(mu)
    /\ LET b == [Idle EXCEPT !.op = op, !.arg = cidr, !.snap = nodes,
                             !.meta = IF op = "Insert" THEN metadata ELSE EmptyMeta]
           first == IF op = "Insert"
                    THEN IF CidrParse[cidr].ones = 0 THEN "set1" ELSE "loop"
                    ELSE IF DeleteBits(CidrParse[cidr].ones, CidrParse[cidr].total,
                                       CidrBytes[cidr]) = 0
                         THEN "check" ELSE "loop"
           p == IF ~CidrParse[cidr].ok
                THEN Done(b, Res("invalid", EmptyText, EmptyMeta, <<>>))
                ELSE [b EXCEPT !.pc = first, !.node = <<>>]
       IN /\ procs' = [q \in Procs |->
                          IF q = self THEN p
                          ELSE IF Running(procs[q]) /\ Running(p)
                               THEN [procs[q] EXCEPT !.clean = FALSE]
                               ELSE procs[q]]
          /\ mu' = Locked(self, p.pc)
    /\ UNCHANGED <<nodes, reg, ref, last>>

\* goroutine self runs the next statement group of its Find or FindAll
ReadStep(self) ==
    /\ Running(procs[self])
    /\ procs[self].op \in Reads
    /\ LET p == IF procs[self].op = "Find" THEN FindStep(nodes, procs[self])
                ELSE FindAllStep(nodes, procs[self])
       IN /\ procs' = [procs EXCEPT ![self] = p]
          /\ mu' = Locked(self, p.pc)
    /\ UNCHANGED <<nodes, reg, ref, last>>

\* goroutine self runs the next statement group of its Insert or Delete
WriteStep(self) ==
    /\ Running(procs[self])
    /\ procs[self].op \in Writes
    /\ LET r == IF procs[self].op = "Insert" THEN InsertStep(nodes, procs[self])
                ELSE DeleteStep(nodes, procs[self])
           ok == r.p.pc = "done" /\ r.p.res.err = "nil"
       IN /\ procs' = [procs EXCEPT ![self] = r.p]
          /\ nodes' = r.t
          /\ mu' = Locked(self, r.p.pc)
          /\ reg' = IF ~ok THEN reg
                    ELSE IF r.p.op = "Insert" THEN RegPut(reg, r.p.node, r.p.arg, r.p.meta)
                    ELSE RegDrop(reg, r.p.node)
          /\ ref' = IF ~ok THEN ref
                    ELSE IF r.p.op = "Insert"
                    THEN RegPut(ref, RefKey(r.p.arg), r.p.arg, r.p.meta)
                    ELSE RegDrop(ref, RefKey(r.p.arg))
    /\ UNCHANGED last

NextConc ==
    \/ \E self \in Procs, op \in Reads, ip \in ConcIPs : BeginRead(self, op, ip)
    \/ \E self \in Procs, cidr \in ConcCidrs : BeginWrite(self, "Insert", cidr, "m2")
    \/ \E self \in Procs, cidr \in ConcCidrs : BeginWrite(self, "Delete", cidr, "m2")
    \/ \E self \in Procs : ReadStep(self)
    \/ \E self \in Procs : WriteStep(self)

SpecConc == InitConc /\ [][NextConc]_vars

(***************************************************************************)
(* Vocabulary of the properties.                                           *)
(***************************************************************************)
ValidIPs == {ip \in IPTexts : IPParse[ip] # <<>>}

ValidCidrs == {c \in CidrTexts : CidrParse[c].ok}

\* the address text a Find or FindAll call was given
ArgIP(l) == IPText(l.arg.fam, l.arg.addr)

\* the bit sequence of an address: the bits of its fixed-width byte sequence
AddrBits(ip) == [i \in 1..(Len(IPBytes[ip]) * ByteBits) |-> BitAt(IPBytes[ip], i - 1)]

\* the registrations of r that cover ip: their L bits are the L leading bits of ip
Covering(r, ip) == {e \in r : IsPrefix(e.path, AddrBits(ip))}

\* the registration of greatest prefix length in a non-empty set c
Longest(c) == CHOOSE e \in c : \A o \in c : Len(o.path) <= Len(e.path)

\* the registrations of c in ascending order of prefix length
Ascending(c) ==
    [i \in 1..Cardinality(c) |->
        CHOOSE e \in c : Cardinality({o \in c : Len(o.path) < Len(e.path)}) = i - 1]

AsMatch(e) == [CIDR |-> e.cidr, Metadata |-> e.metadata]

(***************************************************************************)
(* C1.  After any sequence of Insert and Delete calls, Find(A) for a valid *)
(* address A returns the CIDR text and metadata of the registered prefix   *)
(* of greatest length among those that cover A, and returns not-found      *)
(* exactly when no registered prefix covers A.                             *)
(***************************************************************************)
C1_FindLongestMatch ==
    (last.op = "Find" /\ ArgIP(last) \in ValidIPs) =>
        LET c == Covering(reg, ArgIP(last)) IN
        IF c = {} THEN last.err = "notfound"
        ELSE /\ last.err = "nil"
             /\ last.cidr = Longest(c).cidr
             /\ last.metadata = Longest(c).metadata

\* Find returned the longer, full-width one of two covering prefixes, in a trie that
\* holds an unregistered node with two children
C1_Witness ==
    /\ last.op = "Find" /\ last.err = "nil"
    /\ Cardinality(Covering(reg, ArgIP(last))) = 2
    /\ Len(Longest(Covering(reg, ArgIP(last))).path) = Len(AddrBits(ArgIP(last)))
    /\ \E p \in DOMAIN nodes : ~nodes[p].isEnd /\ NumChildren(DOMAIN nodes, p) = 2

(***************************************************************************)
(* C2.  FindAll(A) for a valid address A returns exactly one entry for     *)
(* every registered prefix that covers A and no other entry, in strictly   *)
(* ascending order of prefix length.                                       *)
(***************************************************************************)
C2_FindAllAscending ==
    (last.op = "FindAll" /\ ArgIP(last) \in ValidIPs) =>
        LET c == Covering(reg, ArgIP(last)) IN
        /\ Len(last.matches) = Cardinality(c)
        /\ \A i \in 1..Cardinality(c) : last.matches[i] = AsMatch(Ascending(c)[i])

\* FindAll returned two entries, the shorter prefix before the longer
C2_Witness ==
    /\ last.op = "FindAll"
    /\ Len(last.matches) = 2
    /\ last.matches[1].CIDR = Cidr(4, A4Ones, 1)
    /\ last.matches[2].CIDR = Cidr(4, A4Net, W4)
    /\ ArgIP(last) = IPText(4, A4Net)

(***************************************************************************)
(* Ranges, by arithmetic on the addresses as numbers.                      *)
(***************************************************************************)
RECURSIVE Val(_)
Val(bytes) ==
    IF bytes = <<>> THEN 0
    ELSE Val(SubSeq(bytes, 1, Len(bytes) - 1)) * Pow2(ByteBits) + bytes[Len(bytes)]

\* the family package net takes a 16-byte address for: IPv4 when To4 is not nil
Family(ip16) == IF To4(ip16) # <<>> THEN 4 ELSE 6

SameFamily(c, ip) == Family(CidrParse[c].IP) = Family(IPParse[ip])

\* the address ip lies between the first and the last address of the range of c
InRangeOf(c, ip) ==
    LET drop == ByteBits * FamBytes(c.fam) - c.plen IN
    /\ SameFamily(c, ip)
    /\ Val(IPParse[ip]) \div Pow2(drop) = Val(To16(c.addr)) \div Pow2(drop)

\* the bits and the length of a CIDR as a path: the first ones bits of its bytes
\* (Nil when its bytes are fewer than ones bits)
CidrKey(c) ==
    IF CidrParse[c].ones <= Len(CidrBytes[c]) * ByteBits
    THEN [i \in 1..CidrParse[c].ones |-> BitAt(CidrBytes[c], i - 1)]
    ELSE Nil

\* the paths from the root to p, p included
PathTo(p) == {SubSeq(p, 1, n) : n \in 0..Len(p)}

(***************************************************************************)
(* C3.  In a trie into which only one valid CIDR C has been inserted, for  *)
(* every address A of C's family: Find(A) succeeds with C's metadata if A  *)
(* lies in C's range (first and last address included), and fails with     *)
(* not-found if A lies outside it.                                         *)
(***************************************************************************)
C3_SingleInsertRoundTrip ==
    [][(nodes = NewIPTrie /\ last'.op = "Insert" /\ last'.err = "nil") =>
        \A ip \in ValidIPs : SameFamily(last'.arg, ip) =>
            IF InRangeOf(last'.arg, ip)
            THEN /\ FindResult(nodes', ip).err = "nil"
                 /\ FindResult(nodes', ip).metadata = last'.meta
                 /\ FindResult(nodes', ip).cidr = last'.arg
            ELSE FindResult(nodes', ip).err = "notfound"]_vars

\* Find succeeded on the last address of the range of the only prefix in the trie
C3_Witness ==
    /\ last.op = "Find" /\ last.err = "nil"
    /\ ArgIP(last) = IPText(4, A4Ones)
    /\ \E e \in reg : reg = {e} /\ e.cidr = Cidr(4, A4Ones, 1)
                      /\ DOMAIN nodes = PathTo(e.path)
                      /\ InRangeOf(e.cidr, ArgIP(last))
                      /\ ~InRangeOf(e.cidr, IPText(4, A4Zero))

(***************************************************************************)
(* C4.  As claimed: FindAll(A) for a valid address A that no registered    *)
(* prefix covers returns the not-found error that Find(A) gives.           *)
(***************************************************************************)
C4_FindAllNotFound ==
    (last.op = "FindAll" /\ ArgIP(last) \in ValidIPs /\ Covering(reg, ArgIP(last)) = {})
        => last.err = "notfound"

(***************************************************************************)
(* C4, amended.  FindAll(A) for a valid address A that no registered       *)
(* prefix covers returns no error and an empty sequence, while Find(A)     *)
(* returns not-found in that state.                                        *)
(***************************************************************************)
C4_FindAllEmptySuccess ==
    (last.op = "FindAll" /\ ArgIP(last) \in ValidIPs /\ Covering(reg, ArgIP(last)) = {})
        => /\ last.err = "nil"
           /\ last.matches = <<>>
           /\ FindResult(nodes, ArgIP(last)).err = "notfound"

\* FindAll was called with an address outside the one registered prefix
C4_Witness ==
    /\ last.op = "FindAll" /\ ArgIP(last) = IPText(4, A4Zero)
    /\ reg # {} /\ Covering(reg, ArgIP(last)) = {}
    /\ last.matches = <<>>

(***************************************************************************)
(* C5.  Inserting a CIDR that is already registered leaves one             *)
(* registration for it: the node set is unchanged, FindAll on a covered    *)
(* address holds one entry for the CIDR, with the new metadata, and Find   *)
(* returns the new metadata when the CIDR is the longest match.            *)
(***************************************************************************)
C5_ReinsertOverwrites ==
    [][(/\ last'.op = "Insert" /\ last'.err = "nil"
        /\ \E p \in DOMAIN nodes : nodes[p].isEnd /\ nodes[p].cidr = last'.arg) =>
        /\ DOMAIN nodes' = DOMAIN nodes
        /\ {p \in DOMAIN nodes' : nodes'[p].isEnd} = {p \in DOMAIN nodes : nodes[p].isEnd}
        /\ nodes'[last'.node].metadata = last'.meta
        /\ \A ip \in ValidIPs : IsPrefix(last'.node, AddrBits(ip)) =>
            LET ms == FindAllResult(nodes', ip).matches IN
            /\ Cardinality({i \in 1..Len(ms) : ms[i].CIDR = last'.arg}) = 1
            /\ \A i \in 1..Len(ms) : ms[i].CIDR = last'.arg => ms[i].Metadata = last'.meta
            /\ Len(ms) = Len(FindAllResult(nodes, ip).matches)
            /\ (FindResult(nodes', ip).cidr = last'.arg
                    => FindResult(nodes', ip).metadata = last'.meta)]_vars

\* Insert with m2 wrote the node that held the same CIDR with m1
C5_Witness ==
    /\ last.op = "Insert" /\ last.err = "nil" /\ last.meta = "m2"
    /\ last.old = [isEnd |-> TRUE, cidr |-> last.arg, metadata |-> "m1"]
    /\ nodes[last.node].metadata = "m2"

(***************************************************************************)
(* C6.  After a successful Delete(C), Find(A) fails with not-found for     *)
(* every address A in C's range that no other registered prefix covers,    *)
(* and a second Delete(C) returns not-found.                               *)
(***************************************************************************)
C6_DeleteThenNotFound ==
    [][(last'.op = "Delete" /\ last'.err = "nil") =>
        /\ \A ip \in ValidIPs :
              (InRangeOf(last'.arg, ip) /\ Covering(reg', ip) = {})
                  => FindResult(nodes', ip).err = "notfound"
        /\ DeleteResult(nodes', last'.arg).err = "notfound"]_vars

\* Delete removed the prefix that had been inserted under the same text, and an
\* address of its range is now covered by nothing
C6_Witness ==
    /\ last.op = "Delete" /\ last.err = "nil"
    /\ last.old.isEnd /\ last.old.cidr = last.arg
    /\ reg # {}
    /\ \E ip \in ValidIPs : /\ InRangeOf(last.arg, ip)
                            /\ Covering(reg, ip) = {}
                            /\ FindResult(nodes, ip).err = "notfound"

(***************************************************************************)
(* C7.  A successful Delete(C) removes only C's registration: every other  *)
(* registered prefix stays registered with its text and metadata, every    *)
(* node on its path still exists, and FindAll(A) for every address A       *)
(* returns what it returned before with C's entry removed.                 *)
(***************************************************************************)
C7_DeleteFrame ==
    [][(last'.op = "Delete" /\ last'.err = "nil") =>
        /\ \A e \in reg : e.path # CidrKey(last'.arg) =>
              /\ e \in reg'
              /\ PathTo(e.path) \subseteq DOMAIN nodes'
              /\ nodes'[e.path] =
                    [isEnd |-> TRUE, cidr |-> e.cidr, metadata |-> e.metadata]
        /\ \A ip \in ValidIPs :
              LET own == {AsMatch(e) : e \in {x \in reg : x.path = CidrKey(last'.arg)}}
                  Other(m) == m \notin own
              IN FindAllResult(nodes', ip).matches
                     = SelectSeq(FindAllResult(nodes, ip).matches, Other)]_vars

(***************************************************************************)
(* C8.  Delete(C) returns not-found whenever no prefix with exactly C's    *)
(* bits and exactly C's length is registered.                              *)
(***************************************************************************)
C8_DeleteUnregistered ==
    [][(/\ last'.op = "Delete" /\ last'.arg \in ValidCidrs
        /\ CidrKey(last'.arg) \notin RegPaths(reg))
            => last'.err = "notfound"]_vars

(***************************************************************************)
(* C9.  An operation that returns an error leaves the trie as it was: no   *)
(* node is created or detached and no flag, text or metadata changes.      *)
(***************************************************************************)
C9_ErrorLeavesTrie ==
    [][last'.err \in {"invalid", "notfound"} => (nodes' = nodes /\ reg' = reg)]_vars

\* Delete returned not-found at a node that exists, unregistered, under a shorter
\* registered prefix and above a longer one
C9_Witness ==
    /\ last.op = "Delete" /\ last.err = "notfound"
    /\ CidrKey(last.arg) \in DOMAIN nodes
    /\ ~nodes[CidrKey(last.arg)].isEnd
    /\ \E e \in reg : Len(e.path) < Len(CidrKey(last.arg)) /\ IsPrefix(e.path, CidrKey(last.arg))
    /\ \E e \in reg : Len(e.path) > Len(CidrKey(last.arg)) /\ IsPrefix(CidrKey(last.arg), e.path)

(***************************************************************************)
(* C10.  Pruning invariant: the trie holds no node other than the root     *)
(* that has no children and is not a registered prefix.                    *)
(***************************************************************************)
C10_NoDeadNode ==
    \A p \in DOMAIN nodes :
        p # <<>> => (nodes[p].isEnd \/ NumChildren(DOMAIN nodes, p) > 0)

(***************************************************************************)
(* Shape of the trie against the registrations.                            *)
(***************************************************************************)
\* the prefix closure of the registered paths of r: every leading part of each
Closure(r) == UNION {PathTo(e.path) : e \in r}

\* the nodes of the trie other than the root are the closure of the registrations
ShapeOK(t, r) == DOMAIN t \ {<<>>} = Closure(r) \ {<<>>}

(***************************************************************************)
(* C11.  Shape invariant: a node exists at depth d on bit path p if and    *)
(* only if p is the first d bits of some registered prefix of length at    *)
(* least d (the root, which the trie owns from construction, aside): the   *)
(* node set is the prefix closure of the registered prefixes.              *)
(***************************************************************************)
C11_ShapeIsClosure == ShapeOK(nodes, reg)

(***************************************************************************)
(* C12.  Against the reference map from (bit sequence, length) that        *)
(* Insert overwrites and successful Delete removes: the nodes with the     *)
(* registered flag are exactly the nodes at the keys of the map, each      *)
(* holding the map's text and metadata, and every unregistered node holds  *)
(* empty CIDR text.                                                        *)
(***************************************************************************)
C12_RefinesMap ==
    /\ {p \in DOMAIN nodes : nodes[p].isEnd} = RegPaths(ref)
    /\ \A e \in ref : e.path \in DOMAIN nodes =>
          nodes[e.path] = [isEnd |-> TRUE, cidr |-> e.cidr, metadata |-> e.metadata]
    /\ \A p \in DOMAIN nodes : ~nodes[p].isEnd => nodes[p].cidr = EmptyText

\* two CIDR texts name the same CIDR: same family, same network bits, same length
SameCidr(a, b) ==
    /\ a.fam = b.fam
    /\ CidrParse[a].ones = CidrParse[b].ones
    /\ CidrParse[a].IP = CidrParse[b].IP

(***************************************************************************)
(* C13.  An Insert overwrites, and a Delete removes, the registration of   *)
(* a node only when the CIDR registered there is the CIDR of the call:     *)
(* same address family, same network bits, same prefix length.             *)
(***************************************************************************)
C13_OneCidrPerNode ==
    (last.op \in {"Insert", "Delete"} /\ last.err = "nil" /\ last.old.isEnd)
        => SameCidr(last.old.cidr, last.arg)

(***************************************************************************)
(* C16.  A successful Insert of a prefix of length L creates exactly the   *)
(* nodes of its bit path that did not exist, detaches none, and changes    *)
(* the flag, text and metadata of no node but the terminal node at depth   *)
(* L; every other registered prefix stays registered unchanged.            *)
(***************************************************************************)
C16_InsertFrame ==
    [][(last'.op = "Insert" /\ last'.err = "nil") =>
        LET key == RefKey(last'.arg) IN
        /\ Len(key) = last'.arg.plen
        /\ last'.node = key
        /\ DOMAIN nodes' = DOMAIN nodes \cup PathTo(key)
        /\ Cardinality(DOMAIN nodes' \ DOMAIN nodes) <= Len(key)
        /\ \A p \in DOMAIN nodes \ {key} : nodes'[p] = nodes[p]
        /\ \A p \in (DOMAIN nodes' \ DOMAIN nodes) \ {key} :
              ~nodes'[p].isEnd /\ nodes'[p].cidr = EmptyText
        /\ \A e \in reg : e.path # key =>
              /\ e \in reg'
              /\ nodes'[e.path] = [isEnd |-> TRUE, cidr |-> e.cidr, metadata |-> e.metadata]
      ]_vars

\* Insert of a full-width IPv6 prefix went through a registered shorter prefix and
\* made the nodes below it
C16_Witness ==
    /\ last.op = "Insert" /\ last.err = "nil"
    /\ Len(last.node) = W6
    /\ ~last.old.isEnd
    /\ \E e \in reg : Len(e.path) > 0 /\ e.path # last.node /\ IsPrefix(e.path, last.node)

\* ipNet.String(): the network address with the host bits zero, and the length
Canonical(c) ==
    [fam |-> c.fam,
     addr |-> IF c.fam = 4 THEN To4(CidrParse[c].IP) ELSE To16(CidrParse[c].IP),
     plen |-> CidrParse[c].ones]

\* the CIDR texts FindAll returns for ip
FoundTexts(t, ip) ==
    {FindAllResult(t, ip).matches[i].CIDR : i \in 1..Len(FindAllResult(t, ip).matches)}

(***************************************************************************)
(* C17.  As claimed: after a successful Insert the registration holds the  *)
(* canonical CIDR text (host bits zeroed), and Find and FindAll on a       *)
(* covered address return that canonical text.                             *)
(***************************************************************************)
C17_StoresCanonical ==
    (last.op = "Insert" /\ last.err = "nil") =>
        /\ nodes[last.node].cidr = Canonical(last.arg)
        /\ \A ip \in ValidIPs : IsPrefix(last.node, AddrBits(ip)) =>
              Canonical(last.arg) \in FoundTexts(nodes, ip)

(***************************************************************************)
(* C17, amended.  After a successful Insert the registration holds the     *)
(* CIDR text exactly as the caller gave it, host bits included; FindAll    *)
(* on a covered address returns that text, and so does Find when the       *)
(* prefix is the longest match.                                            *)
(***************************************************************************)
C17_StoresGivenText ==
    (last.op = "Insert" /\ last.err = "nil") =>
        /\ nodes[last.node].cidr = last.arg
        /\ \A ip \in ValidIPs : IsPrefix(last.node, AddrBits(ip)) =>
              /\ last.arg \in FoundTexts(nodes, ip)
              /\ (last.arg # Canonical(last.arg)
                    => Canonical(last.arg) \notin FoundTexts(nodes, ip))
              /\ (Longest(Covering(reg, ip)).path = last.node
                    => FindResult(nodes, ip).cidr = last.arg)

\* Insert of a text with host bits set; Find on the last address of its range returns
\* the text with the host bits
C17_Witness ==
    /\ last.op = "Insert" /\ last.err = "nil"
    /\ last.arg # Canonical(last.arg)
    /\ FindResult(nodes, IPText(4, A4Ones)).cidr = last.arg
    /\ FindResult(nodes, IPText(4, A4Ones)).cidr.addr = A4Ones

(***************************************************************************)
(* C18.  For every CIDR text the parser accepts, the prefix length Insert  *)
(* and Delete walk is at most the bit width of the byte sequence           *)
(* ipToBytes returns, so the call ends by returning success or an error    *)
(* and never by an out-of-range abort.                                     *)
(***************************************************************************)
C18_NoAbort ==
    (last.op \in {"Insert", "Delete"} /\ last.arg \in ValidCidrs) =>
        /\ last.err # "panic"
        /\ CidrParse[last.arg].ones <= Len(CidrBytes[last.arg]) * ByteBits

(***************************************************************************)
(* C19.  In every reachable state and for every valid address A, Find(A)  *)
(* returns not-found exactly when FindAll(A) is empty, and otherwise the   *)
(* text and metadata of the last entry of FindAll(A).                      *)
(***************************************************************************)
C19_FindAgreesWithFindAll ==
    \A ip \in ValidIPs :
        LET f == FindResult(nodes, ip)
            a == FindAllResult(nodes, ip).matches
        IN IF a = <<>> THEN f.err = "notfound"
           ELSE /\ f.err = "nil"
                /\ f.cidr = a[Len(a)].CIDR
                /\ f.metadata = a[Len(a)].Metadata

\* FindAll returned several entries for an IPv6 address and Find returns the last
C19_Witness ==
    /\ last.op = "FindAll" /\ ArgIP(last) = IPText(6, A6Net)
    /\ Len(last.matches) >= 2
    /\ last.matches[1].CIDR # last.matches[Len(last.matches)].CIDR
    /\ FindResult(nodes, ArgIP(last)).cidr = last.matches[Len(last.matches)].CIDR

(***************************************************************************)
(* C20.  Delete is the inverse of Insert: in any reachable state in which  *)
(* no prefix with C's bits and length is registered, Insert(C) followed    *)
(* by Delete(C) succeeds and restores the identical trie.                  *)
(***************************************************************************)
C20_DeleteUndoesInsert ==
    \A c \in ValidCidrs : RefKey(c) \notin RegPaths(reg) =>
        /\ InsertResult(nodes, c, "m1").err = "nil"
        /\ DeleteResult(InsertResult(nodes, c, "m1").t, c).err = "nil"
        /\ DeleteResult(InsertResult(nodes, c, "m1").t, c).t = nodes

(***************************************************************************)
(* Outcomes of a call run alone on a trie, for the stepwise callers.       *)
(***************************************************************************)
\* what the read of p returns on trie t
ReadRes(t, p) ==
    IF p.op = "Find"
    THEN LET f == FindResult(t, IPText(p.arg.fam, p.arg.addr))
         IN Res(f.err, f.cidr, f.metadata, <<>>)
    ELSE LET a == FindAllResult(t, IPText(p.arg.fam, p.arg.addr))
         IN Res(a.err, EmptyText, EmptyMeta, a.matches)

\* what the Insert or Delete of p returns on trie t, and the trie it leaves
WriteRes(t, p) ==
    IF ~CidrParse[p.arg].ok THEN [t |-> t, err |-> "invalid"]
    ELSE IF p.op = "Insert"
    THEN [t |-> InsertResult(t, p.arg, p.meta).t, err |-> InsertResult(t, p.arg, p.meta).err]
    ELSE [t |-> DeleteResult(t, p.arg).t, err |-> DeleteResult(t, p.arg).err]

\* goroutine self took the step
Moved(self) ==
    <<procs'[self].op, procs'[self].arg, procs'[self].pc, procs'[self].i>>
        # <<procs[self].op, procs[self].arg, procs[self].pc, procs[self].i>>

(***************************************************************************)
(* C14.  Find and FindAll never create, detach or modify a node, on        *)
(* success and on failure; a read during which no Insert or Delete is in   *)
(* progress returns, however its steps interleave with those of other      *)
(* reads, what it returns when run alone on that trie.                     *)
(***************************************************************************)
C14_ReadsAreReadOnly ==
    [][\A self \in Procs : (Moved(self) /\ procs'[self].op \in Reads) =>
          /\ nodes' = nodes
          /\ ((procs'[self].pc = "done" /\ procs'[self].clean) =>
                 /\ procs'[self].snap = nodes
                 /\ procs'[self].res = ReadRes(nodes, procs'[self]))]_vars

\* without a lock, a Find that remembered a match and a FindAll that collected one
\* are both between two of their steps
C14_Witness ==
    /\ ~mu.on
    /\ procs[1].op = "Find" /\ procs[1].pc = "ret" /\ procs[1].lastMatch # Nil
    /\ procs[2].op = "FindAll" /\ procs[2].pc \in {"loop", "last"} /\ procs[2].i >= 1
    /\ procs[2].matches # <<>>
    /\ procs[1].clean /\ procs[2].clean

(***************************************************************************)
(* C15.  With every operation under one exclusive lock held for its whole  *)
(* duration, every outcome is that of a serial order: each call returns    *)
(* what it returns run alone on the trie it found when it took the lock,   *)
(* and a write leaves the trie it leaves run alone.  (Without the lock a   *)
(* read can return what neither serial order gives: C15_Witness.)          *)
(***************************************************************************)
C15_LockedIsSerial ==
    mu.on =>
        /\ Cardinality({q \in Procs : Running(procs[q])}) <= 1
        /\ \A self \in Procs : procs[self].pc = "done" =>
              IF procs[self].op \in Reads
              THEN procs[self].res = ReadRes(procs[self].snap, procs[self])
              ELSE /\ procs[self].res.err = WriteRes(procs[self].snap, procs[self]).err
                   /\ nodes = WriteRes(procs[self].snap, procs[self]).t

\* without the lock, a Find that overlapped a successful Delete returned success with
\* the empty CIDR text of the node the Delete cleared: not what Find returns before
\* the Delete, nor after it
C15_Witness ==
    /\ ~mu.on
    /\ procs[1].op = "Delete" /\ procs[1].pc = "done" /\ procs[1].res.err = "nil"
    /\ procs[2].op = "Find" /\ procs[2].pc = "done" /\ ~procs[2].clean
    /\ procs[2].res.err = "nil" /\ procs[2].res.cidr = EmptyText
    /\ procs[2].res # ReadRes(procs[1].snap, procs[2])
    /\ procs[2].res # ReadRes(nodes, procs[2])

====
